---- MODULE Spec2Model ----
(***************************************************************************)
(* A model of the configuration parser of cfg_parse.c.                     *)
(*                                                                         *)
(* The source file is a sequence of bytes; a byte is written as the        *)
(* one-character string that shows it ("k", "=", "\n").  The stream        *)
(* position `pos` is the number of bytes before the next one to be read,   *)
(* as ftell() reports it.  fgetc, fseek (the pushback macro) and fgets are *)
(* modelled by what the C library does with a read-only stream, including  *)
(* at end-of-file.  Doubles are kept as exact numbers m * 2^p2 * 5^p5: the *)
(* rounding of strtod to 53 bits is not modelled.                          *)
(***************************************************************************)
EXTENDS Integers, Sequences, FiniteSets, TLC

VARIABLES
    input,    \* how the source text was put together (never read by the parser)
    src,      \* the bytes of the opened file
    pos,      \* the stream position of `file`
    pc,       \* where ParseConfig and its callees are
    status,   \* `status` of ParseConfigLine (lines 258-268)
    result,   \* what ParseConfig returned (0: it has not returned)
    nodes,    \* the ConfigEntry blocks, by address 1..Len(nodes)
    TailPtr,  \* `Tail` of ParseConfig: the address of the node being filled
    Entries,  \* config->Entries
    more,     \* `more` of ParseVector
    str,      \* the literal ParseGenericNumber captured last (`str`)
    heap,     \* the blocks allocated, the blocks freed, and the faults so far
    closes,   \* how many times fclose(file) was called
    found,    \* the last FindValue call: its arguments and what it returned
    out       \* what DumpConfig wrote to its file, once it was called

vars == <<input, src, pos, pc, status, result, nodes, TailPtr, Entries, more,
          str, heap, closes, found, out>>

----------------------------------------------------------------------------
(* cfg_parse.h: types and status codes *)

NULL_TYPE == 0
NUMBER_TYPE == 1
DECIMAL_TYPE == 2
STRING_TYPE == 3
ARRAY_TYPE == 4
PRIMITIVE_TYPE == 5

FILE_NO_ACCESS == -1
OUT_OF_MEMORY == -2
UNEXPECTED_EOF == -3
UNEXPECTED_TOKEN == -4
INVALID_CONFIG_KEY == -5
INVALID_ARRAY_ELEMENT == -6
INVALID_INTEGER_LITERAL == -7
INVALID_DECIMAL_LITERAL == -8

NULL == 0

----------------------------------------------------------------------------
(* <ctype.h> in the C locale; EOF is no byte *)

EOF == "EOF"
VT == "\\v"

DigitChars == <<"0", "1", "2", "3", "4", "5", "6", "7", "8", "9">>
LowerChars == <<"a", "b", "c", "d", "e", "f", "g", "h", "i", "j", "k", "l", "m",
                "n", "o", "p", "q", "r", "s", "t", "u", "v", "w", "x", "y", "z">>
UpperChars == <<"A", "B", "C", "D", "E", "F", "G", "H", "I", "J", "K", "L", "M",
                "N", "O", "P", "Q", "R", "S", "T", "U", "V", "W", "X", "Y", "Z">>

Range(s) == {s[i] : i \in 1..Len(s)}

Letters == Range(LowerChars) \cup Range(UpperChars)
Digits == Range(DigitChars)

isdigit(c) == c \in Digits
isalpha(c) == c \in Letters
isalnum(c) == isalpha(c) \/ isdigit(c)
isspace(c) == c \in {" ", "\t", "\n", "\r", "\f", VT}
tolower(c) ==
    IF c \in Range(UpperChars)
    THEN LowerChars[CHOOSE i \in 1..Len(UpperChars) : UpperChars[i] = c]
    ELSE c
isxdigit(c) == isdigit(c) \/ tolower(c) \in {"a", "b", "c", "d", "e", "f"}

\* The value of a digit in bases up to 16 (0-9, then a-f in either case).
DigitValue(c) ==
    IF isdigit(c)
    THEN (CHOOSE i \in 1..Len(DigitChars) : DigitChars[i] = c) - 1
    ELSE (CHOOSE i \in 1..Len(LowerChars) : LowerChars[i] = tolower(c)) + 9

\* The value of Body for the value of v, v being worked out once.
Let(v, Body(_)) == CHOOSE y \in {Body(x) : x \in {v}} : TRUE

----------------------------------------------------------------------------
(* <stdio.h> on a stream opened "r" on file contents f, at position p *)

\* fgetc: the next byte and the position after it; at end-of-file EOF, and the
\* position stays.
fgetc(f, p) ==
    IF p < Len(f) THEN [c |-> f[p + 1], pos |-> p + 1] ELSE [c |-> EOF, pos |-> p]

\* pushback(file, n) is fseek(file, -(n), SEEK_CUR): it moves the position back
\* by n whatever was read last; a seek to before the start of the file fails
\* (EINVAL) and leaves the position where it was.
pushback(p, n) == IF p - n < 0 THEN p ELSE p - n

\* fgets(buf, n, file): reads at most n - 1 bytes, stopping after a newline or
\* at end-of-file; the C string left in buf, and the position after it.
RECURSIVE fgets(_, _, _)
fgets(f, p, n) ==
    IF n <= 1 \/ p >= Len(f) THEN [s |-> <<>>, pos |-> p]
    ELSE IF f[p + 1] = "\n" THEN [s |-> <<"\n">>, pos |-> p + 1]
    ELSE Let(fgets(f, p + 1, n - 1), LAMBDA rest :
             [s |-> <<f[p + 1]>> \o rest.s, pos |-> rest.pos])

----------------------------------------------------------------------------
(* Lexical helpers *)

\* ParseComment: the position after the next newline, or end-of-file.
RECURSIVE ParseComment(_, _)
ParseComment(f, p) ==
    Let(fgetc(f, p), LAMBDA r :
        IF r.c = "\n" \/ r.c = EOF THEN r.pos ELSE ParseComment(f, r.pos))

IsSpecialSymbol(c) == c \in {"$", ".", "_"}

\* expect: reads one byte; -1 if it is not c (EOF is not c), else 1.
expect(f, p, c) ==
    LET r == fgetc(f, p)
    IN  [r |-> IF c # r.c THEN -1 ELSE 1, pos |-> r.pos]

\* consumeLetter: reads one byte; -1 if it is no letter, else 1.
consumeLetter(f, p) ==
    LET r == fgetc(f, p)
    IN  [r |-> IF ~isalpha(r.c) THEN -1 ELSE 1, pos |-> r.pos]

\* consumeSpace: reads bytes until one is no whitespace, then seeks back by one.
\* At end-of-file fgetc read nothing, and the seek still moves back by one.
RECURSIVE consumeSpace(_, _)
consumeSpace(f, p) ==
    Let(fgetc(f, p), LAMBDA r :
        IF ~isspace(r.c) THEN pushback(r.pos, 1) ELSE consumeSpace(f, r.pos))

----------------------------------------------------------------------------
(* Token parsers *)

\* The loop of ParseString (lines 77-85): the position and len at the break.
RECURSIVE ParseStringScan(_, _, _)
ParseStringScan(f, p, len) ==
    Let(fgetc(f, p), LAMBDA r :
        IF ~isalnum(r.c) /\ ~IsSpecialSymbol(r.c)
        THEN [pos |-> pushback(r.pos, 1), len |-> len]
        ELSE ParseStringScan(f, r.pos, len + 1))

\* ParseString: the key (ok = FALSE for NULL) and the position after.
ParseString(f, p) ==
    Let(consumeLetter(f, p), LAMBDA first :
        IF first.r < 0 THEN [ok |-> FALSE, string |-> <<>>, pos |-> first.pos]
        ELSE Let(ParseStringScan(f, first.pos, 1), LAMBDA scan :
             Let(fgets(f, pushback(scan.pos, scan.len), scan.len + 1), LAMBDA got :
                 [ok |-> TRUE, string |-> got.s, pos |-> got.pos])))

\* The loop of ParseQuotedString (lines 97-106).
RECURSIVE ParseQuotedScan(_, _, _)
ParseQuotedScan(f, p, len) ==
    Let(fgetc(f, p), LAMBDA r :
        IF r.c = EOF THEN [eof |-> TRUE, pos |-> r.pos, len |-> len]
        ELSE IF r.c = "'" THEN [eof |-> FALSE, pos |-> r.pos, len |-> len]
        ELSE ParseQuotedScan(f, r.pos, len + 1))

\* What a parser did to the heap, the block named by what it is to the
\* Value being filled: its Primitive, the String of that, or `str`.
Malloc(what) == [op |-> "malloc", what |-> what]
Free(what) == [op |-> "free", what |-> what]
Access(what) == [op |-> "access", what |-> what]

\* ParseQuotedString, called after the opening quote was read.
ParseQuotedString(f, p) ==
    Let(ParseQuotedScan(f, p, 0), LAMBDA scan :
        IF scan.eof
        THEN [status |-> UNEXPECTED_EOF, pos |-> scan.pos,
              prim |-> [Type |-> STRING_TYPE, String |-> <<>>], mem |-> <<>>]
        ELSE Let(fgets(f, pushback(scan.pos, scan.len + 1), scan.len + 1), LAMBDA got :
                 [status |-> 1, pos |-> fgetc(f, got.pos).pos,
                  prim |-> [Type |-> STRING_TYPE, String |-> got.s],
                  mem |-> <<Malloc("String"), Access("Primitive"), Access("String")>>]))

IsHexDigit(c) == tolower(c) \in {"a", "b", "c", "d", "e", "f"}

----------------------------------------------------------------------------
(* <stdlib.h>: strtol(s, &endptr, 0) and strtod(s, &endptr), for a string s
   that starts with a digit (ParseValue calls ParseGenericNumber on nothing
   else) and holds no sign and no whitespace (the scan captures neither).
   `end` is how many characters were converted: *endptr is '\0' exactly when
   end = Len(s).  The literals modelled are too short to leave the range of a
   long or of a double, so ERANGE clamping is not modelled. *)

IsDigitOf(c, base) == isxdigit(c) /\ DigitValue(c) < base

\* The first index at or after i whose character is no digit of `base`.
RECURSIVE RunEnd(_, _, _)
RunEnd(s, i, base) ==
    IF i <= Len(s) /\ IsDigitOf(s[i], base) THEN RunEnd(s, i + 1, base) ELSE i

\* The number that the digits s[i..j-1] write in `base`, after acc.
RECURSIVE DigitsValue(_, _, _, _, _)
DigitsValue(s, i, j, base, acc) ==
    IF i >= j THEN acc
    ELSE DigitsValue(s, i + 1, j, base, acc * base + DigitValue(s[i]))

\* Base 0: "0x"/"0X" followed by a hex digit is hexadecimal, another leading
\* "0" is octal, anything else is decimal.
strtol(s) ==
    LET hex == /\ Len(s) >= 3
               /\ s[1] = "0"
               /\ tolower(s[2]) = "x"
               /\ isxdigit(s[3])
        base == IF hex THEN 16 ELSE IF s[1] = "0" THEN 8 ELSE 10
        from == IF hex THEN 3 ELSE 1
        to == RunEnd(s, from, base)
    IN  [val |-> DigitsValue(s, from, to, base, 0), end |-> to - 1]

\* How often q divides m (m # 0).
RECURSIVE Multiplicity(_, _)
Multiplicity(m, q) == IF m % q = 0 THEN 1 + Multiplicity(m \div q, q) ELSE 0

RECURSIVE Power(_, _)
Power(b, n) == IF n = 0 THEN 1 ELSE b * Power(b, n - 1)

\* The double m * 2^p2 * 5^p5 in its one normal form (m divisible by neither).
Double(m, p2, p5) ==
    IF m = 0 THEN [m |-> 0, p2 |-> 0, p5 |-> 0]
    ELSE LET i == Multiplicity(m, 2)
             j == Multiplicity(m, 5)
         IN  [m |-> m \div (Power(2, i) * Power(5, j)), p2 |-> p2 + i, p5 |-> p5 + j]

\* A hexadecimal significand after "0x", or a decimal one with an optional
\* exponent ([eE] digits); a trailing "." belongs to the number.
strtod(s) ==
    LET hex == /\ Len(s) >= 3
               /\ s[1] = "0"
               /\ tolower(s[2]) = "x"
               /\ \/ isxdigit(s[3])
                  \/ s[3] = "." /\ Len(s) >= 4 /\ isxdigit(s[4])
        base == IF hex THEN 16 ELSE 10
        from == IF hex THEN 3 ELSE 1
        dot == RunEnd(s, from, base)
        hasdot == dot <= Len(s) /\ s[dot] = "."
        to == IF hasdot THEN RunEnd(s, dot + 1, base) ELSE dot
        whole == DigitsValue(s, from, dot, base, 0)
        mant == IF hasdot THEN DigitsValue(s, dot + 1, to, base, whole) ELSE whole
        nfrac == IF hasdot THEN to - (dot + 1) ELSE 0
        hasexp == /\ ~hex
                  /\ to + 1 <= Len(s)
                  /\ tolower(s[to]) = "e"
                  /\ isdigit(s[to + 1])
        expend == IF hasexp THEN RunEnd(s, to + 1, 10) ELSE to
        exp == IF hasexp THEN DigitsValue(s, to + 1, expend, 10, 0) ELSE 0
    IN  [val |-> IF hex THEN Double(mant, -4 * nfrac, 0)
                 ELSE Double(mant, exp - nfrac, exp - nfrac),
         end |-> expend - 1]

\* NumberScan had it no first_dot test: every "." is taken into the literal.
RECURSIVE NumberScanEveryDot(_, _, _, _)
NumberScanEveryDot(f, p, len, first_dot) ==
    Let(fgetc(f, p), LAMBDA r :
        IF r.c = EOF
        THEN [eof |-> TRUE, pos |-> r.pos, len |-> len, is_float |-> ~first_dot]
        ELSE IF isdigit(r.c) \/ IsHexDigit(r.c) \/ r.c = "x" \/ r.c = "X"
        THEN NumberScanEveryDot(f, r.pos, len + 1, first_dot)
        ELSE IF r.c = "."
        THEN NumberScanEveryDot(f, r.pos, len + 1, FALSE)
        ELSE [eof |-> FALSE, pos |-> pushback(r.pos, 1), len |-> len,
              is_float |-> ~first_dot])

\* The loop of ParseGenericNumber (lines 129-145).
RECURSIVE NumberScan(_, _, _, _)
NumberScan(f, p, len, first_dot) ==
    Let(fgetc(f, p), LAMBDA r :
        IF r.c = EOF
        THEN [eof |-> TRUE, pos |-> r.pos, len |-> len, is_float |-> ~first_dot]
        ELSE IF isdigit(r.c) \/ IsHexDigit(r.c) \/ r.c = "x" \/ r.c = "X"
        THEN NumberScan(f, r.pos, len + 1, first_dot)
        ELSE IF r.c = "." /\ first_dot
        THEN NumberScan(f, r.pos, len + 1, FALSE)
        ELSE [eof |-> FALSE, pos |-> pushback(r.pos, 1), len |-> len,
              is_float |-> ~first_dot])

\* What malloc returns for a PrimitiveValue: nothing is set.
UninitPrimitive == [Garbage |-> TRUE]

\* ParseGenericNumber: the status, the position after, the PrimitiveValue it
\* filled and the literal it captured (`str`).
ParseGenericNumber(f, p) ==
    Let(NumberScan(f, p, 0, TRUE), LAMBDA scan :
        IF scan.eof
        THEN [status |-> UNEXPECTED_TOKEN, pos |-> scan.pos,
              prim |-> UninitPrimitive, str |-> <<>>, mem |-> <<>>]
        ELSE Let(fgets(f, pushback(scan.pos, scan.len), scan.len + 1), LAMBDA got :
                 IF scan.is_float
                 THEN Let(strtod(got.s), LAMBDA d :
                          [status |-> IF d.end # Len(got.s)
                                      THEN INVALID_DECIMAL_LITERAL ELSE 1,
                           pos |-> got.pos,
                           prim |-> [Type |-> DECIMAL_TYPE, Decimal |-> d.val],
                           str |-> got.s,
                           mem |-> <<Malloc("str"), Access("str"), Access("Primitive")>>
                                   \o (IF d.end # Len(got.s) THEN <<>>
                                       ELSE <<Free("str")>>)])
                 ELSE Let(strtol(got.s), LAMBDA n :
                          [status |-> IF n.end # Len(got.s)
                                      THEN INVALID_INTEGER_LITERAL ELSE 1,
                           pos |-> got.pos,
                           prim |-> [Type |-> NUMBER_TYPE, Number |-> n.val],
                           str |-> got.s,
                           mem |-> <<Malloc("str"), Access("str"), Access("Primitive")>>
                                   \o (IF n.end # Len(got.s) THEN <<>>
                                       ELSE <<Free("str")>>)])))

\* ParseValue: the status, the position after, the PrimitiveValue (allocated
\* unless the first read hit end-of-file) and the literal captured, if any.
ParseValue(f, p) ==
    Let(fgetc(f, p), LAMBDA r :
        IF r.c = EOF
        THEN [status |-> UNEXPECTED_EOF, pos |-> r.pos,
              prim |-> UninitPrimitive, str |-> <<>>, mem |-> <<>>]
        ELSE IF r.c = "'"
        THEN Let(ParseQuotedString(f, r.pos), LAMBDA q :
                 [status |-> q.status, pos |-> q.pos, prim |-> q.prim, str |-> <<>>,
                  mem |-> <<Malloc("Primitive"), Access("Value"), Access("Primitive")>>
                          \o q.mem])
        ELSE IF isdigit(r.c)
        THEN Let(ParseGenericNumber(f, pushback(r.pos, 1)), LAMBDA n :
                 [n EXCEPT !.mem = <<Malloc("Primitive"), Access("Value")>> \o @])
        ELSE [status |-> UNEXPECTED_TOKEN, pos |-> r.pos,
              prim |-> UninitPrimitive, str |-> <<>>,
              mem |-> <<Malloc("Primitive"), Access("Value")>>])

----------------------------------------------------------------------------
(* The source texts parsed *)

MaxTail == 2
MaxStmts == 3
MaxDigits == 3
MaxElems == 2

\* All sequences over S of length at most n.
RECURSIVE SeqsUpTo(_, _)
SeqsUpTo(S, n) ==
    IF n = 0 THEN {<<>>}
    ELSE LET shorter == SeqsUpTo(S, n - 1)
         IN  shorter \cup {Append(s, x) : s \in {u \in shorter : Len(u) = n - 1}, x \in S}

RECURSIVE Concat(_)
Concat(ss) == IF ss = <<>> THEN <<>> ELSE Head(ss) \o Concat(Tail(ss))

\* Texts cut short or gone wrong at some place, each followed by every tail.
Prefixes ==
    { <<>>,
      <<"k">>,
      <<"k", " ", "=">>,
      <<"k", " ", "=", " ">>,
      <<"k", " ", "=", " ", "1">>,
      <<"k", " ", "=", " ", "1", ".", "2">>,
      <<"k", " ", "=", " ", "1", ".", "2", ".", "3">>,
      <<"k", " ", "=", " ", "'", "a", "b", "c">>,
      <<"k", " ", "=", " ", "'", "a", "b", "c", "'">>,
      <<"k", " ", "=", " ", "[">>,
      <<"k", " ", "=", " ", "[", "1">>,
      <<"k", " ", "=", " ", "[", "1", ",">>,
      <<"k", " ", "=", " ", "[", "1", ",", " ">>,
      <<"k", " ", "=", " ", "[", "1", " ", "2">>,
      <<"k", " ", "=", " ", "[", "1", "]">>,
      <<"k", " ", "=", " ", "[", "x">>,
      <<"k", " ", "=", " ", "[", "1", "a", "b", "c">>,
      <<"k", " ", "=", " ", "[", "'", "a">>,
      <<"k", " ", "=", " ", "[", ",", "1">>,
      <<"k", " ", "=", " ", "[", "1", ",", ",", "2">>,
      <<"1", "a", "b", "c", " ", "=", " ", "2">>,
      <<"_", "a", " ", "=", " ", "1">> }

TailAlphabet == {";", "'", "]", ",", " ", "\n", "1", ".", "x", "="}

\* Whole lines, each with the entry its statement states (none for a blank
\* or a comment line): the key, the kind and the value written.
Num(n) == [Type |-> NUMBER_TYPE, Number |-> n]
Str(s) == [Type |-> STRING_TYPE, String |-> s]

Lines ==
    << [text |-> <<"k", " ", "=", " ", "1", ";">>,
        entry |-> <<[Key |-> <<"k">>, Type |-> PRIMITIVE_TYPE, Value |-> Num(1)]>>],
       [text |-> <<"k", "=", "'", "a", "'", ";", "\n">>,
        entry |-> <<[Key |-> <<"k">>, Type |-> PRIMITIVE_TYPE, Value |-> Str(<<"a">>)]>>],
       [text |-> <<"k", " ", "=", " ", "[", "2", ",", " ", "'", "b", "'", "]", ";">>,
        entry |-> <<[Key |-> <<"k">>, Type |-> ARRAY_TYPE,
                     Value |-> <<Num(2), Str(<<"b">>)>>]>>],
       [text |-> <<"j", ".", "x", "=", "[", "]", " ", ";">>,
        entry |-> <<[Key |-> <<"j", ".", "x">>, Type |-> ARRAY_TYPE, Value |-> <<>>]>>],
       [text |-> <<"#", " ", "c", ";", "\n">>, entry |-> <<>>],
       [text |-> <<" ", "\n">>, entry |-> <<>>],
       [text |-> <<"k", "=", "'", "\n", "b", ";", "#", "'", ";">>,
        entry |-> <<[Key |-> <<"k">>, Type |-> PRIMITIVE_TYPE,
                     Value |-> Str(<<"\n", "b", ";", "#">>)]>>] >>

\* Integer literals are written over these characters.
NumAlphabet == {"0", "1", "9", "x", "F"}

\* Array elements, each with the value it writes.
Elements ==
    << [text |-> <<"1">>, value |-> Num(1)],
       [text |-> <<"'", "a", "'">>, value |-> Str(<<"a">>)],
       [text |-> <<"0", "x", "1", "F">>, value |-> Num(31)],
       [text |-> <<"'", "a", "\n", "b", "'">>, value |-> Str(<<"a", "\n", "b">>)] >>

\* e1,e2,...,en
RECURSIVE Joined(_)
Joined(es) ==
    IF es = <<>> THEN <<>>
    ELSE IF Len(es) = 1 THEN Elements[es[1]].text
    ELSE Elements[es[1]].text \o <<",">> \o Joined(Tail(es))

Inputs ==
    {[kind |-> "raw", prefix |-> p, tail |-> u] :
        p \in Prefixes, u \in SeqsUpTo(TailAlphabet, MaxTail)}
    \cup {[kind |-> "doc", parts |-> d] : d \in SeqsUpTo(1..Len(Lines), MaxStmts)}
    \cup {[kind |-> "num", literal |-> n] :
            n \in SeqsUpTo(NumAlphabet, MaxDigits) \ {<<>>}}
    \cup {[kind |-> "arr", elems |-> es, comma |-> c] :
            es \in SeqsUpTo(1..Len(Elements), MaxElems), c \in BOOLEAN}

\* The bytes of the file an input stands for.
Source(in) ==
    CASE in.kind = "raw" -> in.prefix \o in.tail
      [] in.kind = "doc" -> Concat([i \in 1..Len(in.parts) |-> Lines[in.parts[i]].text])
      [] in.kind = "num" -> <<"k", " ", "=", " ">> \o in.literal \o <<";">>
      [] in.kind = "arr" -> <<"k", " ", "=", " ", "[">> \o Joined(in.elems)
                            \o (IF in.comma THEN <<",">> ELSE <<>>) \o <<"]", ";">>

----------------------------------------------------------------------------
(* <stdlib.h>: malloc and free, and the blocks a Config is made of *)

\* A block is named by what it is, the node (ConfigEntry address) it hangs
\* from and, inside an array, the index of its element (0 outside one).
Block(what, node, elem) == [what |-> what, node |-> node, elem |-> elem]

\* The Config itself (line 325).
ConfigBlock == Block("Config", 0, 0)

\* The ConfigEntry at an address (lines 333 and 314).
EntryBlock(node) == Block("ConfigEntry", node, 0)

malloc(b) == [op |-> "malloc", block |-> b]
free(b) == [op |-> "free", block |-> b]
\* A read or a write through a pointer to b.
access(b) == [op |-> "access", block |-> b]

\* The heap after one call or access: free() of a block that is not allocated
\* and an access to one are undefined, and are recorded as faults.
HeapStep(h, o) ==
    CASE o.op = "malloc" ->
           [h EXCEPT !.allocated = @ \cup {o.block}, !.freed = @ \ {o.block}]
      [] o.op = "free" ->
           IF o.block \in h.allocated
           THEN [h EXCEPT !.allocated = @ \ {o.block}, !.freed = @ \cup {o.block}]
           ELSE [h EXCEPT !.faults = @ \cup
                   {[fault |-> IF o.block \in h.freed THEN "double free"
                               ELSE "free of no block",
                     block |-> o.block]}]
      [] o.op = "access" ->
           IF o.block \in h.allocated THEN h
           ELSE [h EXCEPT !.faults = @ \cup
                   {[fault |-> IF o.block \in h.freed THEN "use after free"
                               ELSE "use of no block",
                     block |-> o.block]}]

\* The heap after the calls and accesses ops[from], ..., ops[to] in order:
\* after the first half of them, then the second.
RECURSIVE HeapOver(_, _, _, _)
HeapOver(h, ops, from, to) ==
    IF from > to THEN h
    ELSE IF from = to THEN HeapStep(h, ops[from])
    ELSE Let(HeapOver(h, ops, from, (from + to) \div 2), LAMBDA half :
             HeapOver(half, ops, ((from + to) \div 2) + 1, to))

\* The heap after a sequence of calls and accesses, in order.
Heap(h, ops) == Let(ops, LAMBDA all : HeapOver(h, all, 1, Len(all)))

\* What ParseValue did to the heap when it filled the Value of a node
\* (elem = 0) or of element elem of its array.
Owned(mem, node, elem) ==
    [i \in 1..Len(mem) |-> [op |-> mem[i].op, block |-> Block(mem[i].what, node, elem)]]

\* ParseConfig, line 352: a failure of ParseCfg frees the Config and no more.
ReturnOps(st) == IF st < 0 THEN <<free(ConfigBlock)>> ELSE <<>>

----------------------------------------------------------------------------
(* The parser's state *)

\* A pointer or a field that malloc left unset.
Uninit == [Garbage |-> TRUE]

\* A ConfigEntry as ParseConfig and ParseCfg set it up: Type and Next only.
NullEntry == [Key |-> Uninit, Value |-> Uninit, Next |-> NULL, Type |-> NULL_TYPE]

Init ==
    /\ input \in Inputs
    /\ src = Source(input)
    /\ pos = 0
    /\ pc = "open"
    /\ status = 0
    /\ result = 0
    /\ nodes = <<>>
    /\ TailPtr = NULL
    /\ Entries = 0
    /\ more = 1
    /\ str = <<>>
    /\ heap = [allocated |-> {}, freed |-> {}, faults |-> {}]
    /\ closes = 0
    /\ found = [called |-> FALSE]
    /\ out = [called |-> FALSE]

\* ParseConfig, lines 321-337: fopen, the Config and the first (sentinel) node.
\* fopen or the first malloc may fail; the source checks no other allocation.
ParseConfigOpen ==
    /\ pc = "open"
    /\ \E outcome \in {"opened", "no file", "no memory"} :
          CASE outcome = "no file" ->
                 /\ result' = FILE_NO_ACCESS
                 /\ pc' = "done"
                 /\ UNCHANGED <<nodes, TailPtr, closes, heap>>
            [] outcome = "no memory" ->
                 /\ result' = OUT_OF_MEMORY
                 /\ closes' = closes + 1
                 /\ pc' = "done"
                 /\ UNCHANGED <<nodes, TailPtr, heap>>
            [] outcome = "opened" ->
                 /\ nodes' = <<NullEntry>>
                 /\ TailPtr' = 1
                 /\ heap' = Heap(heap, <<malloc(ConfigBlock), access(ConfigBlock),
                                         malloc(EntryBlock(1)), access(EntryBlock(1))>>)
                 /\ pc' = "main"
                 /\ UNCHANGED <<result, closes>>
    /\ UNCHANGED <<input, src, pos, status, Entries, more, str, found, out>>

\* ParseCfgReturns had it no fclose on a failure: the file stays open.
ParseCfgReturnsLeavingOpen(st) ==
    IF st < 0
    THEN /\ result' = st
         /\ pc' = "done"
         /\ UNCHANGED <<closes, TailPtr, Entries>>
    ELSE /\ pc' = "main"
         /\ UNCHANGED <<result, closes>>
         /\ IF nodes'[TailPtr].Next # NULL
            THEN /\ TailPtr' = nodes'[TailPtr].Next
                 /\ Entries' = Entries + 1
            ELSE UNCHANGED <<TailPtr, Entries>>

\* ParseConfig, lines 350-360, once ParseCfg returned st having left the
\* nodes as nodes': a failure frees the Config, closes the file and is
\* returned; otherwise Tail moves on if ParseCfg linked a new node.
ParseCfgReturns(st) ==
    IF st < 0
    THEN /\ result' = st
         /\ closes' = closes + 1
         /\ pc' = "done"
         /\ UNCHANGED <<TailPtr, Entries>>
    ELSE /\ pc' = "main"
         /\ UNCHANGED <<result, closes>>
         /\ IF nodes'[TailPtr].Next # NULL
            THEN /\ TailPtr' = nodes'[TailPtr].Next
                 /\ Entries' = Entries + 1
            ELSE UNCHANGED <<TailPtr, Entries>>

\* One turn of the loop of ParseConfig (lines 339-349), and lines 363-365.
ParseConfig ==
    /\ pc = "main"
    /\ \E r \in {fgetc(src, pos)} :
           IF r.c = EOF
           THEN /\ heap' = Heap(heap, <<free(EntryBlock(TailPtr))>>)
                /\ closes' = closes + 1
                /\ result' = 1
                /\ pc' = "done"
                /\ pos' = r.pos
           ELSE IF isspace(r.c)
           THEN /\ pos' = r.pos
                /\ UNCHANGED <<pc, heap, closes, result>>
           ELSE /\ pos' = pushback(r.pos, 1)
                /\ pc' = "cfg"
                /\ UNCHANGED <<heap, closes, result>>
    /\ UNCHANGED <<input, src, status, nodes, TailPtr, Entries, more, str, found, out>>

\* One turn of the loop of ParseCfg (lines 286-311) up to the call of
\* ParseConfigLine; a blank or a comment line returns 1 with no node linked.
ParseCfg ==
    /\ pc = "cfg"
    /\ nodes' = nodes
    /\ \E r \in {fgetc(src, pos)} :
           IF r.c = EOF
           THEN /\ pos' = r.pos
                /\ heap' = Heap(heap, ReturnOps(UNEXPECTED_EOF))
                /\ ParseCfgReturns(UNEXPECTED_EOF)
           ELSE IF r.c = "\n"
           THEN pos' = r.pos /\ heap' = heap /\ ParseCfgReturns(1)
           ELSE IF isspace(r.c)
           THEN pos' = r.pos /\ UNCHANGED <<pc, result, closes, TailPtr, Entries, heap>>
           ELSE IF r.c = "#"
           THEN pos' = ParseComment(src, r.pos) /\ heap' = heap /\ ParseCfgReturns(1)
           ELSE IF isalpha(r.c)
           THEN /\ pos' = pushback(r.pos, 1)
                /\ pc' = "line"
                /\ UNCHANGED <<result, closes, TailPtr, Entries, heap>>
           ELSE /\ pos' = r.pos
                /\ heap' = Heap(heap, ReturnOps(UNEXPECTED_TOKEN))
                /\ ParseCfgReturns(UNEXPECTED_TOKEN)
    /\ UNCHANGED <<input, src, status, more, str, found, out>>

\* A Vector as ParseVector sets it up (lines 195-199): one slot, not yet set.
EmptyVector == [Length |-> 0, Data |-> <<Uninit>>]

\* ParseString returned a key (line 88) and it was stored (line 244).
KeyOps(node) == <<malloc(Block("Key", node, 0)), access(EntryBlock(node))>>

\* Lines 260-265: the Value of the entry, and the entry's Type.
ValueOps(node) == <<malloc(Block("Value", node, 0)), access(EntryBlock(node))>>

\* ParseVector, lines 195-199: the Vector and its Data array of one slot.
VectorOps(node) ==
    <<malloc(Block("Vector", node, 0)), access(Block("Value", node, 0)),
      malloc(Block("Data", node, 0)), access(Block("Vector", node, 0))>>

\* ParseConfigLine, lines 244-268, up to the call of ParseVector or through
\* the call of ParseValue.  A failure before either returns at once, and
\* ParseCfg hands it on (lines 305-306).
ParseConfigLine ==
    /\ pc = "line"
    /\ \E key \in {ParseString(src, pos)} :
          IF ~key.ok
          THEN /\ nodes' = [nodes EXCEPT ![TailPtr].Key = NULL]
               /\ pos' = key.pos
               /\ heap' = Heap(heap, <<access(EntryBlock(TailPtr))>>
                                      \o ReturnOps(INVALID_CONFIG_KEY))
               /\ ParseCfgReturns(INVALID_CONFIG_KEY)
               /\ UNCHANGED <<status, more, str>>
          ELSE \E eq \in {expect(src, consumeSpace(src, key.pos), "=")} :
          IF eq.r < 0
          THEN /\ nodes' = [nodes EXCEPT ![TailPtr].Key = key.string]
               /\ pos' = eq.pos
               /\ heap' = Heap(heap, KeyOps(TailPtr) \o ReturnOps(UNEXPECTED_TOKEN))
               /\ ParseCfgReturns(UNEXPECTED_TOKEN)
               /\ UNCHANGED <<status, more, str>>
          ELSE \E r \in {fgetc(src, consumeSpace(src, eq.pos))} :
          IF r.c = EOF
          THEN /\ nodes' = [nodes EXCEPT ![TailPtr].Key = key.string]
               /\ pos' = r.pos
               /\ heap' = Heap(heap, KeyOps(TailPtr) \o ReturnOps(UNEXPECTED_EOF))
               /\ ParseCfgReturns(UNEXPECTED_EOF)
               /\ UNCHANGED <<status, more, str>>
          ELSE IF r.c = "["
          THEN /\ nodes' = [nodes EXCEPT ![TailPtr] =
                               [@ EXCEPT !.Key = key.string,
                                         !.Type = ARRAY_TYPE,
                                         !.Value = [Primitive |-> Uninit,
                                                    Array |-> EmptyVector]]]
               /\ pos' = r.pos
               /\ heap' = Heap(heap, KeyOps(TailPtr) \o ValueOps(TailPtr)
                                      \o VectorOps(TailPtr))
               /\ status' = 0
               /\ more' = 1
               /\ pc' = "vec"
               /\ UNCHANGED <<str, result, closes, TailPtr, Entries>>
          ELSE \E val \in {ParseValue(src, pushback(r.pos, 1))} :
               /\ nodes' = [nodes EXCEPT ![TailPtr] =
                               [@ EXCEPT !.Key = key.string,
                                         !.Type = PRIMITIVE_TYPE,
                                         !.Value = [Primitive |-> val.prim,
                                                    Array |-> Uninit]]]
               /\ pos' = val.pos
               /\ heap' = Heap(heap, KeyOps(TailPtr) \o ValueOps(TailPtr)
                                      \o Owned(val.mem, TailPtr, 0))
               /\ status' = val.status
               /\ str' = IF val.str # <<>> THEN val.str ELSE str
               /\ pc' = "term"
               /\ UNCHANGED <<more, result, closes, TailPtr, Entries>>
    /\ UNCHANGED <<input, src, found, out>>

\* vec->Data with the Value of element number Length put in: the first goes
\* into the slot allocated with the Vector, a later one after a realloc.
WithElement(vector, prim) ==
    LET value == [Primitive |-> prim, Array |-> Uninit]
    IN  [Length |-> vector.Length + 1,
         Data |-> IF vector.Length + 1 = 1
                  THEN [vector.Data EXCEPT ![1] = value]
                  ELSE Append(vector.Data, value)]

\* ParseVector, lines 220-232: element number i (from 1) of the array of a
\* node gets its Value, put into the Data array, grown first unless i = 1.
ElementOps(node, i) ==
    <<access(Block("Vector", node, 0))>>
    \o (IF i = 1 THEN <<>> ELSE <<access(Block("Data", node, 0))>>)
    \o <<malloc(Block("Value", node, i)), access(Block("Data", node, 0))>>

\* One turn of the loop of ParseVector (lines 201-237); on its return the
\* status is stored by ParseConfigLine (line 263).
ParseVector ==
    /\ pc = "vec"
    /\ \E r \in {fgetc(src, consumeSpace(src, pos))} :
          IF r.c = EOF
          THEN /\ pos' = r.pos
               /\ status' = UNEXPECTED_EOF
               /\ pc' = "term"
               /\ UNCHANGED <<nodes, more, str, heap>>
          ELSE IF r.c = "]"
          THEN /\ pos' = r.pos
               /\ status' = 1
               /\ pc' = "term"
               /\ UNCHANGED <<nodes, more, str, heap>>
          ELSE IF r.c = ","
          THEN /\ pos' = r.pos
               /\ more' = 1
               /\ UNCHANGED <<nodes, status, pc, str, heap>>
          ELSE IF more = 0
          THEN /\ pos' = r.pos
               /\ status' = UNEXPECTED_TOKEN
               /\ pc' = "term"
               /\ UNCHANGED <<nodes, more, str, heap>>
          ELSE \E val \in {ParseValue(src, pushback(r.pos, 1))} :
               /\ nodes' = [nodes EXCEPT ![TailPtr].Value.Array =
                               WithElement(@, val.prim)]
               /\ pos' = val.pos
               /\ heap' = Heap(heap, ElementOps(TailPtr, nodes[TailPtr].Value.Array.Length + 1)
                                      \o Owned(val.mem, TailPtr,
                                               nodes[TailPtr].Value.Array.Length + 1))
               /\ str' = IF val.str # <<>> THEN val.str ELSE str
               /\ IF val.status < 0
                  THEN /\ status' = INVALID_ARRAY_ELEMENT
                       /\ pc' = "term"
                       /\ UNCHANGED more
                  ELSE /\ more' = 0
                       /\ UNCHANGED <<status, pc>>
    /\ UNCHANGED <<input, src, result, TailPtr, Entries, closes, found, out>>

\* ParseCfg, lines 314-316: the node after `entry`, and lines 357-359.
NextOps(entry, next) ==
    <<malloc(EntryBlock(next)), access(EntryBlock(entry)), access(EntryBlock(next)),
      access(ConfigBlock)>>

\* ParseConfigLineEnd had it no test of what expect returned: the status of
\* the value is returned whatever follows it.
ParseConfigLineEndUnchecked ==
    /\ pc = "term"
    /\ \E semi \in {expect(src, consumeSpace(src, pos), ";")} :
           /\ pos' = semi.pos
           /\ nodes' = IF status < 0 THEN nodes
                       ELSE Append([nodes EXCEPT ![TailPtr].Next = Len(nodes) + 1],
                                   NullEntry)
           /\ heap' = Heap(heap, IF status < 0 THEN ReturnOps(status)
                                  ELSE NextOps(TailPtr, Len(nodes) + 1))
           /\ ParseCfgReturns(status)
    /\ UNCHANGED <<input, src, status, more, str, found, out>>

\* ParseConfigLine, lines 270-275, then ParseCfg, lines 305-317: after a
\* config_line that succeeded the next node is allocated and linked.
ParseConfigLineEnd ==
    /\ pc = "term"
    /\ \E semi \in {expect(src, consumeSpace(src, pos), ";")} :
       \E st \in {IF semi.r < 0 THEN UNEXPECTED_TOKEN ELSE status} :
           /\ pos' = semi.pos
           /\ nodes' = IF st < 0 THEN nodes
                       ELSE Append([nodes EXCEPT ![TailPtr].Next = Len(nodes) + 1],
                                   NullEntry)
           /\ heap' = Heap(heap, IF st < 0 THEN ReturnOps(st)
                                  ELSE NextOps(TailPtr, Len(nodes) + 1))
           /\ ParseCfgReturns(st)
    /\ UNCHANGED <<input, src, status, more, str, found, out>>

----------------------------------------------------------------------------
(* Accessors *)

\* The address of entry number i on the chain that starts at config->List.
RECURSIVE NthEntry(_, _)
NthEntry(list, i) == IF i = 1 THEN 1 ELSE list[NthEntry(list, i - 1)].Next

\* What an entry holds, as Lines and Elements write it: the primitive, or the
\* primitives of the array in order.
Held(node) ==
    IF node.Type = PRIMITIVE_TYPE THEN node.Value.Primitive
    ELSE [i \in 1..node.Value.Array.Length |-> node.Value.Array.Data[i].Primitive]

\* FindValueFrom had it no test of the kind: the first entry with the key.
RECURSIVE FindValueFromAnyKind(_, _, _, _, _, _)
FindValueFromAnyKind(list, ce, i, n, ty, Key) ==
    IF i >= n THEN NULL
    ELSE IF list[ce].Key = Key THEN ce
    ELSE FindValueFromAnyKind(list, list[ce].Next, i + 1, n, ty, Key)

\* The loop of FindValue from entry ce, turn i: the address of the entry whose
\* Value is returned, or NULL.
RECURSIVE FindValueFrom(_, _, _, _, _, _)
FindValueFrom(list, ce, i, n, ty, Key) ==
    IF i >= n THEN NULL
    ELSE IF list[ce].Key = Key /\ list[ce].Type = ty THEN ce
    ELSE FindValueFrom(list, list[ce].Next, i + 1, n, ty, Key)

\* FindValue(config, ty, Key), config->List being the node at address 1.
FindValue(list, n, ty, Key) == FindValueFrom(list, 1, 0, n, ty, Key)

\* The blocks the loop of FindValue reads from entry ce, turn i, on.
RECURSIVE FindValueReads(_, _, _, _, _, _)
FindValueReads(list, ce, i, n, ty, Key) ==
    <<access(ConfigBlock)>>
    \o (IF i >= n THEN <<>>
        ELSE <<access(EntryBlock(ce)), access(Block("Key", ce, 0))>>
             \o (IF list[ce].Key = Key /\ list[ce].Type = ty THEN <<>>
                 ELSE FindValueReads(list, list[ce].Next, i + 1, n, ty, Key)))

LookupKeys == {<<"k">>, <<"j", ".", "x">>, <<"j">>}

\* A caller looks a key up in the document a successful parse returned,
\* before it gives the document to FreeConfig.
FindValueCall ==
    /\ pc = "done"
    /\ result = 1
    /\ ConfigBlock \notin heap.freed
    /\ \E ty \in {PRIMITIVE_TYPE, ARRAY_TYPE}, Key \in LookupKeys :
          /\ found' = [called |-> TRUE, ty |-> ty, Key |-> Key,
                       entry |-> FindValue(nodes, Entries, ty, Key)]
          /\ heap' = Heap(heap, FindValueReads(nodes, 1, 0, Entries, ty, Key))
    /\ UNCHANGED <<input, src, pos, pc, status, result, nodes, TailPtr, Entries,
                   more, str, closes, out>>

----------------------------------------------------------------------------
(* DumpConfig *)

\* printf("%ld"): the decimal digits of n, after a "-" if n is negative.
RECURSIVE PrintNumber(_)
PrintNumber(n) ==
    IF n < 0 THEN <<"-">> \o PrintNumber(-n)
    ELSE IF n < 10 THEN <<DigitChars[n + 1]>>
    ELSE PrintNumber(n \div 10) \o <<DigitChars[(n % 10) + 1]>>

\* The last `width` decimal digits of n, with leading zeros.
RECURSIVE PrintPadded(_, _)
PrintPadded(n, width) ==
    IF width = 0 THEN <<>>
    ELSE PrintPadded(n \div 10, width - 1) \o <<DigitChars[(n % 10) + 1]>>

\* printf("%lf"): six digits after the point, the nearest such number (the
\* doubles modelled are not negative).
PrintDecimal(d) ==
    LET up2 == IF d.p2 + 6 > 0 THEN d.p2 + 6 ELSE 0
        up5 == IF d.p5 + 6 > 0 THEN d.p5 + 6 ELSE 0
        num == d.m * Power(2, up2) * Power(5, up5)
        den == Power(2, up2 - (d.p2 + 6)) * Power(5, up5 - (d.p5 + 6))
        millionths == (2 * num + den) \div (2 * den)
    IN  PrintNumber(millionths \div 1000000) \o <<".">>
        \o PrintPadded(millionths % 1000000, 6)

\* PrintPrimitive had it "%s" for "'%s'": strings are written without quotes.
PrintPrimitiveBare(pv) ==
    IF pv.Type = NUMBER_TYPE THEN PrintNumber(pv.Number)
    ELSE IF pv.Type = DECIMAL_TYPE THEN PrintDecimal(pv.Decimal)
    ELSE pv.String

\* PrintPrimitive.  Every primitive of a parsed document has one of the three
\* types, so the default case (exit) is not reached.
PrintPrimitive(pv) ==
    IF pv.Type = NUMBER_TYPE THEN PrintNumber(pv.Number)
    ELSE IF pv.Type = DECIMAL_TYPE THEN PrintDecimal(pv.Decimal)
    ELSE <<"'">> \o pv.String \o <<"'">>

\* The loop of PrintVector from element i on (i counts from 1 here).
RECURSIVE PrintElements(_, _)
PrintElements(vec, i) ==
    IF i > vec.Length THEN <<>>
    ELSE PrintPrimitive(vec.Data[i].Primitive)
         \o (IF i # vec.Length THEN <<",">> ELSE <<>>)
         \o PrintElements(vec, i + 1)

PrintVector(vec) == <<"[">> \o PrintElements(vec, 1) \o <<"]">>

\* The loop of DumpConfig from entry ce, turn i.
RECURSIVE DumpConfigFrom(_, _, _, _)
DumpConfigFrom(list, ce, i, n) ==
    IF i >= n THEN <<>>
    ELSE list[ce].Key \o <<" ", "=", " ">>
         \o (IF list[ce].Type = PRIMITIVE_TYPE
             THEN PrintPrimitive(list[ce].Value.Primitive)
             ELSE PrintVector(list[ce].Value.Array))
         \o <<";", "\n">>
         \o DumpConfigFrom(list, list[ce].Next, i + 1, n)

\* DumpConfig(file, config): the bytes written to file.
DumpConfig(list, n) == DumpConfigFrom(list, 1, 0, n)

\* The blocks PrintPrimitive reads for the primitive of a node (elem = 0) or
\* of element elem of its array.
PrimitiveReads(pv, node, elem) ==
    <<access(Block("Primitive", node, elem))>>
    \o (IF pv.Type = STRING_TYPE THEN <<access(Block("String", node, elem))>> ELSE <<>>)

\* The blocks PrintVector reads from element i on.
RECURSIVE VectorReads(_, _, _)
VectorReads(vec, node, i) ==
    <<access(Block("Vector", node, 0))>>
    \o (IF i > vec.Length THEN <<>>
        ELSE <<access(Block("Data", node, 0)), access(Block("Value", node, i))>>
             \o PrimitiveReads(vec.Data[i].Primitive, node, i)
             \o VectorReads(vec, node, i + 1))

\* The blocks the loop of DumpConfig reads from entry ce, turn i, on.
RECURSIVE DumpConfigReads(_, _, _, _)
DumpConfigReads(list, ce, i, n) ==
    <<access(ConfigBlock)>>
    \o (IF i >= n THEN <<>>
        ELSE <<access(EntryBlock(ce)), access(Block("Key", ce, 0)),
               access(Block("Value", ce, 0))>>
             \o (IF list[ce].Type = PRIMITIVE_TYPE
                 THEN PrimitiveReads(list[ce].Value.Primitive, ce, 0)
                 ELSE VectorReads(list[ce].Value.Array, ce, 1))
             \o DumpConfigReads(list, list[ce].Next, i + 1, n))

\* main, line 16: the document a successful parse returned is dumped.
DumpConfigCall ==
    /\ pc = "done"
    /\ result = 1
    /\ ~out.called
    /\ ConfigBlock \notin heap.freed
    /\ out' = [called |-> TRUE, text |-> DumpConfig(nodes, Entries)]
    /\ heap' = Heap(heap, DumpConfigReads(nodes, 1, 0, Entries))
    /\ UNCHANGED <<input, src, pos, pc, status, result, nodes, TailPtr, Entries,
                   more, str, closes, found>>

----------------------------------------------------------------------------
(* FreeConfig *)

\* Lines 414-416 and 423-425: the primitive of a node (elem = 0) or of
\* element elem of its array is freed, its string first if it holds one.
FreePrimitive(pv, node, elem) ==
    <<access(Block("Value", node, elem)), access(Block("Primitive", node, elem))>>
    \o (IF pv.Type = STRING_TYPE THEN <<free(Block("String", node, elem))>> ELSE <<>>)
    \o <<free(Block("Primitive", node, elem))>>

\* The inner loop of FreeConfig (lines 421-427) from element i on.
RECURSIVE FreeElements(_, _, _)
FreeElements(vec, node, i) ==
    <<access(Block("Vector", node, 0))>>
    \o (IF i > vec.Length THEN <<>>
        ELSE <<access(Block("Data", node, 0))>>
             \o FreePrimitive(vec.Data[i].Primitive, node, i)
             \o <<access(Block("Data", node, 0)), free(Block("Value", node, i))>>
             \o FreeElements(vec, node, i + 1))

\* FreeVector had it no free(vec->Data): the Data array is left behind.
FreeVectorLeavingData(vec, node) ==
    <<access(Block("Value", node, 0))>>
    \o FreeElements(vec, node, 1)
    \o <<free(Block("Vector", node, 0))>>

\* Lines 419-430: the array of a node is freed, element by element, then
\* its Data array and the Vector.
FreeVector(vec, node) ==
    <<access(Block("Value", node, 0))>>
    \o FreeElements(vec, node, 1)
    \o <<access(Block("Vector", node, 0)), free(Block("Data", node, 0)),
          free(Block("Vector", node, 0))>>

\* The loop of FreeConfig (lines 406-438) from entry ce, turn i, on, and
\* line 440.  ce->Next is read before ce is tested; the Next of the last
\* entry is the address of the node ParseConfig freed, which is stored in
\* ce and never followed.
RECURSIVE FreeConfigFrom(_, _, _, _)
FreeConfigFrom(list, ce, i, n) ==
    <<access(ConfigBlock)>>
    \o (IF i >= n THEN <<free(ConfigBlock)>>
        ELSE <<access(EntryBlock(ce))>>
             \o (IF ce = NULL THEN <<free(ConfigBlock)>>
                 ELSE <<free(Block("Key", ce, 0))>>
                      \o (IF list[ce].Type = PRIMITIVE_TYPE
                          THEN FreePrimitive(list[ce].Value.Primitive, ce, 0)
                          ELSE FreeVector(list[ce].Value.Array, ce))
                      \o <<free(Block("Value", ce, 0)), free(EntryBlock(ce))>>
                      \o (IF list[ce].Next # NULL
                          THEN FreeConfigFrom(list, list[ce].Next, i + 1, n)
                          ELSE <<free(ConfigBlock)>>)))

\* FreeConfig(config), config->List being the node at address 1.
FreeConfig(list, n) == FreeConfigFrom(list, 1, 0, n)

\* main, line 17: the document a successful parse returned is freed, once.
FreeConfigCall ==
    /\ pc = "done"
    /\ result = 1
    /\ ConfigBlock \notin heap.freed
    /\ heap' = Heap(heap, FreeConfig(nodes, Entries))
    /\ UNCHANGED <<input, src, pos, pc, status, result, nodes, TailPtr, Entries,
                   more, str, closes, found, out>>

\* The document held: for each entry in order its key, kind and value.
Document ==
    [i \in 1..Entries |->
        [Key |-> nodes[NthEntry(nodes, i)].Key,
         Type |-> nodes[NthEntry(nodes, i)].Type,
         Value |-> Held(nodes[NthEntry(nodes, i)])]]

\* main run again, on the file the dump was written to (lines 9-10): the
\* input remembers the document the dump was made from.
ParseConfigOfDump ==
    /\ pc = "done"
    /\ out.called
    /\ input.kind # "dump"
    /\ input' = [kind |-> "dump", doc |-> Document]
    /\ src' = out.text
    /\ pos' = 0
    /\ pc' = "open"
    /\ status' = 0
    /\ result' = 0
    /\ nodes' = <<>>
    /\ TailPtr' = NULL
    /\ Entries' = 0
    /\ more' = 1
    /\ str' = <<>>
    /\ heap' = [allocated |-> {}, freed |-> {}, faults |-> {}]
    /\ closes' = 0
    /\ found' = [called |-> FALSE]
    /\ out' = [called |-> FALSE]

Next ==
    \/ ParseConfigOpen
    \/ ParseConfig
    \/ ParseCfg
    \/ ParseConfigLine
    \/ ParseVector
    \/ ParseConfigLineEnd
    \/ FindValueCall
    \/ DumpConfigCall
    \/ FreeConfigCall
    \/ ParseConfigOfDump

Spec == Init /\ [][Next]_vars

\* The steps of ParseConfig and its callees: a call of ParseConfig that has
\* been made keeps running until it returns.
Parse ==
    \/ ParseConfigOpen
    \/ ParseConfig
    \/ ParseCfg
    \/ ParseConfigLine
    \/ ParseVector
    \/ ParseConfigLineEnd

LiveSpec == Spec /\ WF_vars(Parse)

----------------------------------------------------------------------------
(* What the claims speak of *)

\* ParseConfig opened the file, parsed and returned.
Returned == pc = "done" /\ result \notin {FILE_NO_ACCESS, OUT_OF_MEMORY}

IsPrefixOf(s, u) == Len(s) <= Len(u) /\ SubSeq(u, 1, Len(s)) = s

\* The source is text p cut off or continued by some tail.
RawFrom(p) == input.kind = "raw" /\ input.prefix = p

\* C1: a quoted string opened with ' and not closed before end-of-input makes
\* ParseConfig fail with UNEXPECTED_EOF, whatever the last bytes are.
C1_UnclosedQuoteIsUnexpectedEOF ==
    (/\ RawFrom(<<"k", " ", "=", " ", "'", "a", "b", "c">>)
     /\ "'" \notin Range(input.tail)
     /\ Returned)
    => result = UNEXPECTED_EOF

\* C2: an array element that fails to parse makes ParseConfig fail with
\* INVALID_ARRAY_ELEMENT whatever bytes follow the element: so it does in
\* k = [x]; and in k = [1abc];
C2_BadElementIsInvalidArrayElement ==
    (/\ \/ RawFrom(<<"k", " ", "=", " ", "[", "x">>)
        \/ RawFrom(<<"k", " ", "=", " ", "[", "1", "a", "b", "c">>)
     /\ input.tail = <<"]", ";">>
     /\ Returned)
    => result = INVALID_ARRAY_ELEMENT

\* C3: end-of-input inside an array, where the array loop reads its next byte
\* (after optional whitespace), makes ParseConfig fail with UNEXPECTED_EOF.
C3_EndInsideArrayIsUnexpectedEOF ==
    (/\ \/ RawFrom(<<"k", " ", "=", " ", "[">>)
        \/ RawFrom(<<"k", " ", "=", " ", "[", "1", ",">>)
        \/ RawFrom(<<"k", " ", "=", " ", "[", "1", ",", " ">>)
     /\ \A i \in 1..Len(input.tail) : input.tail[i] \in {" ", "\n"}
     /\ Returned)
    => result = UNEXPECTED_EOF

\* C4: a statement whose key does not start with a letter (1abc = 2; or
\* _a = 1;) makes ParseConfig fail with INVALID_CONFIG_KEY.
C4_BadKeyIsInvalidConfigKey ==
    (/\ \/ RawFrom(<<"1", "a", "b", "c", " ", "=", " ", "2">>)
        \/ RawFrom(<<"_", "a", " ", "=", " ", "1">>)
     /\ input.tail = <<";">>
     /\ Returned)
    => result = INVALID_CONFIG_KEY

\* The number a run of decimal digits writes in base ten.
RECURSIVE DecimalOf(_)
DecimalOf(n) ==
    IF n = <<>> THEN 0
    ELSE 10 * DecimalOf(SubSeq(n, 1, Len(n) - 1))
         + (CHOOSE d \in 0..9 : DigitChars[d + 1] = n[Len(n)])

\* The number a run of hexadecimal digits writes in base sixteen.
RECURSIVE HexOf(_)
HexOf(n) ==
    IF n = <<>> THEN 0
    ELSE 16 * HexOf(SubSeq(n, 1, Len(n) - 1))
         + (CHOOSE d \in 0..15 :
              <<"0", "1", "2", "3", "4", "5", "6", "7", "8", "9",
                "a", "b", "c", "d", "e", "f">>[d + 1] = tolower(n[Len(n)]))

IsDecimalLiteral(n) == n # <<>> /\ \A i \in 1..Len(n) : isdigit(n[i])
IsHexLiteral(n) ==
    /\ Len(n) >= 3
    /\ n[1] = "0"
    /\ n[2] = "x"
    /\ \A i \in 3..Len(n) : isxdigit(n[i])
Denoted(n) == IF IsHexLiteral(n) THEN HexOf(SubSeq(n, 3, Len(n))) ELSE DecimalOf(n)

\* C5: for k = N; with N a run of decimal digits (leading zeros included) or
\* a 0x hex literal, ParseConfig succeeds and FindValue(doc, PRIMITIVE_TYPE,
\* "k") yields an Integer whose Number is the value N denotes.
C5_IntegerStatementYieldsItsValue ==
    (/\ input.kind = "num"
     /\ IsDecimalLiteral(input.literal) \/ IsHexLiteral(input.literal)
     /\ Returned)
    => /\ result = 1
       /\ (found.called /\ found.ty = PRIMITIVE_TYPE /\ found.Key = <<"k">>)
          => /\ found.entry # NULL
             /\ nodes[found.entry].Value.Primitive = Num(Denoted(input.literal))

\* C6: k = []; parses to an Array of length 0, and k = [e1,...,en,]; parses,
\* for every non-empty list of elements, to the Array of length n that holds
\* the elements in order, as k = [e1,...,en]; does.
C6_ArrayHoldsItsElements ==
    (/\ input.kind = "arr"
     /\ input.elems # <<>> \/ ~input.comma
     /\ Returned)
    => /\ result = 1
       /\ Entries = 1
       /\ nodes[1].Type = ARRAY_TYPE
       /\ nodes[1].Value.Array.Length = Len(input.elems)
       /\ Held(nodes[1]) = [i \in 1..Len(input.elems) |-> Elements[input.elems[i]].value]

\* The first entry, in document order, with this key and this kind; NULL if
\* there is none.
EarliestMatch(ty, Key) ==
    LET matching == {i \in 1..Entries :
                       /\ nodes[NthEntry(nodes, i)].Key = Key
                       /\ nodes[NthEntry(nodes, i)].Type = ty}
    IN  IF matching = {} THEN NULL
        ELSE NthEntry(nodes, CHOOSE i \in matching : \A j \in matching : i <= j)

\* C7: FindValue on a parsed document returns the Value of the earliest entry
\* whose key equals Key and whose kind equals ty, and NULL when none does.
C7_FindValueReturnsEarliestMatch ==
    found.called => found.entry = EarliestMatch(found.ty, found.Key)

\* A lookup passed over an entry with the key but another kind, returned the
\* second entry, and a later entry with the same key and kind exists.
C7_Witness ==
    /\ found.called
    /\ Entries >= 3
    /\ found.entry = 2
    /\ nodes[1].Key = found.Key /\ nodes[1].Type # found.ty
    /\ nodes[3].Key = found.Key /\ nodes[3].Type = found.ty

\* The first byte of f at or after position p that is no whitespace.
RECURSIVE NextNonSpace(_, _)
NextNonSpace(f, p) ==
    IF p >= Len(f) THEN EOF
    ELSE IF f[p + 1] \in {" ", "\t", "\n", "\r", "\f", VT} THEN NextNonSpace(f, p + 1)
    ELSE f[p + 1]

\* C8: when the value or the array of a statement parsed and what follows it,
\* after optional whitespace, is not ";" (another byte, or the end of the
\* input), ParseConfig fails with UNEXPECTED_TOKEN and counts no entry for it.
C8_MissingSemicolonIsUnexpectedToken ==
    [][(pc = "term" /\ status = 1 /\ NextNonSpace(src, pos) # ";")
       => (pc' = "done" /\ result' = UNEXPECTED_TOKEN /\ Entries' = Entries)]_vars

\* A quoted string parsed, only whitespace followed to the end of the input,
\* and ParseConfig failed with UNEXPECTED_TOKEN.
C8_Witness ==
    /\ RawFrom(<<"k", " ", "=", " ", "'", "a", "b", "c", "'">>)
    /\ input.tail = <<" ", "\n">>
    /\ pc = "done"
    /\ status = 1
    /\ result = UNEXPECTED_TOKEN
    /\ Entries = 0

\* C9: in k = 1.2.3 the literal captured is 1.2, it parses as the float 1.2
\* (12/10 = 3 * 2 / 5), the cursor is left at .3, and ParseConfig fails with
\* UNEXPECTED_TOKEN; no captured literal holds a second ".".
C9_SecondDotEndsTheLiteral ==
    /\ Cardinality({i \in 1..Len(str) : str[i] = "."}) <= 1
    /\ (input.kind = "raw"
        /\ IsPrefixOf(<<"k", " ", "=", " ", "1", ".", "2", ".", "3">>, src))
       => /\ pc = "term"
             => /\ str = <<"1", ".", "2">>
                /\ status = 1
                /\ nodes[TailPtr].Value.Primitive =
                      [Type |-> DECIMAL_TYPE, Decimal |-> [m |-> 3, p2 |-> 1, p5 |-> -1]]
                /\ pos = 7
                /\ SubSeq(src, pos + 1, pos + 2) = <<".", "3">>
          /\ Returned => result = UNEXPECTED_TOKEN

\* k = 1.2.3; was parsed: 1.2 was captured and ParseConfig returned
\* UNEXPECTED_TOKEN.
C9_Witness ==
    /\ src = <<"k", " ", "=", " ", "1", ".", "2", ".", "3", ";">>
    /\ pc = "done"
    /\ str = <<"1", ".", "2">>
    /\ result = UNEXPECTED_TOKEN

\* The entries the lines of a document state, in source order.
Stated(parts) == Concat([i \in 1..Len(parts) |-> Lines[parts[i]].entry])

\* C10: after a successful ParseConfig, Entries is the number of statements
\* of the source, and the chain from config->List holds, entry by entry, the
\* keys, kinds and values of the statements in source order.
C10_DocumentHoldsTheStatements ==
    (input.kind = "doc" /\ Returned /\ result = 1)
    => /\ Entries = Len(Stated(input.parts))
       /\ \A i \in 1..Entries :
             LET node == nodes[NthEntry(nodes, i)]
                 want == Stated(input.parts)[i]
             IN  /\ node.Key = want.Key
                 /\ node.Type = want.Type
                 /\ Held(node) = want.Value

\* An integer or a string (no string of a parsed document holds a quote).
IsPlain(pv) == pv.Type \in {NUMBER_TYPE, STRING_TYPE}

\* A document whose values are integers, strings and arrays of those.
PlainDocument(doc) ==
    \A i \in 1..Len(doc) :
        IF doc[i].Type = PRIMITIVE_TYPE THEN IsPlain(doc[i].Value)
        ELSE \A j \in 1..Len(doc[i].Value) : IsPlain(doc[i].Value[j])

\* C11: parsing the text DumpConfig wrote for a parsed document of integers,
\* strings and arrays of those succeeds and yields the same entries (keys,
\* kinds, values, array lengths and elements) in the same order; and no array
\* is written with a comma before its "]".
C11_DumpParsesBackToTheDocument ==
    /\ (input.kind = "dump" /\ PlainDocument(input.doc) /\ Returned)
       => /\ result = 1
          /\ Document = input.doc
    /\ out.called
       => \A i \in 1..Len(out.text) - 1 :
             ~(out.text[i] = "," /\ out.text[i + 1] = "]")

\* The dump of a document with a string and an array of two elements was
\* parsed back.
C11_Witness ==
    /\ input.kind = "dump"
    /\ pc = "done"
    /\ result = 1
    /\ Entries >= 2
    /\ \E i \in 1..Entries :
          /\ Document[i].Type = PRIMITIVE_TYPE
          /\ Document[i].Value.Type = STRING_TYPE
    /\ \E i \in 1..Entries :
          /\ Document[i].Type = ARRAY_TYPE
          /\ Len(Document[i].Value) = 2

\* C12: once ParseConfig has opened the file, it closes it exactly once before
\* it returns, on success and on every failure: the file is open while the
\* parse runs, closed once ParseConfig has returned, and never closed twice.
C12_FileClosedExactlyOnce ==
    /\ closes <= 1
    /\ pc \in {"main", "cfg", "line", "vec", "term"} => closes = 0
    /\ (pc = "done" /\ result # FILE_NO_ACCESS) => closes = 1

\* ParseConfig failed after it had counted an entry, and the file is closed.
C12_Witness ==
    /\ pc = "done"
    /\ result < OUT_OF_MEMORY
    /\ Entries >= 1
    /\ closes = 1

\* C13: ParseConfig terminates on every source: every call of it returns,
\* with success or with an error code.
C13_ParseConfigReturns == (pc = "open") ~> (pc = "done")

\* The position of the first byte of f at or after position p that is no
\* whitespace; Len(f), the end of the input, if there is none.
RECURSIVE FirstNonSpace(_, _)
FirstNonSpace(f, p) ==
    IF p >= Len(f) THEN Len(f)
    ELSE IF f[p + 1] \in {" ", "\t", "\n", "\r", "\f", VT} THEN FirstNonSpace(f, p + 1)
    ELSE p

\* C14: consumeSpace called at position p leaves the cursor at the first byte
\* at or after p that is no whitespace, or at the end of the input if there is
\* none, and never before p.  It is called at the cursor where the array loop
\* starts a turn (line 202) and after the value of a statement (line 270).
C14_ConsumeSpaceStopsAtFirstNonSpace ==
    pc \in {"vec", "term"}
    => /\ consumeSpace(src, pos) = FirstNonSpace(src, pos)
       /\ consumeSpace(src, pos) >= pos

\* The index of the first "'" of f after index q.
ClosingQuote(f, q) ==
    CHOOSE c \in q + 1..Len(f) : f[c] = "'" /\ \A i \in q + 1..c - 1 : f[i] # "'"

\* C15: for every quoted string 's' of the source, s holding no "'" (s may be
\* empty, and may hold newlines), ParseQuotedString, called once the opening
\* quote is read, succeeds, stores s byte for byte, and leaves the cursor
\* right after the closing quote.
C15_QuotedStringIsStoredWhole ==
    \A q \in 1..Len(src) :
        (src[q] = "'" /\ \E c \in q + 1..Len(src) : src[c] = "'")
        => /\ ParseQuotedString(src, q).status = 1
           /\ ParseQuotedString(src, q).prim.String
                 = SubSeq(src, q + 1, ClosingQuote(src, q) - 1)
           /\ ParseQuotedString(src, q).pos = ClosingQuote(src, q)

\* C16: in an array a value that follows a value without a comma between them
\* (k = [1 2];) makes ParseConfig fail with UNEXPECTED_TOKEN, and ParseConfig
\* does not succeed on an array with a comma before its first element
\* (k = [,1];) or with two commas in a row (k = [1,,2];).
C16_MisplacedCommasAreRejected ==
    /\ (/\ RawFrom(<<"k", " ", "=", " ", "[", "1", " ", "2">>)
        /\ input.tail = <<"]", ";">>
        /\ Returned)
       => result = UNEXPECTED_TOKEN
    /\ (/\ \/ RawFrom(<<"k", " ", "=", " ", "[", ",", "1">>)
           \/ RawFrom(<<"k", " ", "=", " ", "[", "1", ",", ",", "2">>)
        /\ input.tail = <<"]", ";">>
        /\ Returned)
       => result # 1

\* FreeConfig was given the document a successful parse returned.
Released == pc = "done" /\ result = 1 /\ ConfigBlock \in heap.freed

\* C17: when ParseConfig succeeded, then through the DumpConfig and FindValue
\* calls and the one FreeConfig that follow no block was read or written
\* that was not allocated and no block was freed that was not allocated;
\* and once FreeConfig has returned no block is allocated any more, every
\* node, the last one (freed by ParseConfig) included, having been freed.
\* This covers the document with no entries.
C17_SuccessPathIsHeapSafe ==
    /\ result = 1 => heap.faults = {}
    /\ Released =>
          /\ heap.allocated = {}
          /\ \A node \in 1..Len(nodes) : EntryBlock(node) \in heap.freed

\* A document of two entries or more, with a string, a number and an array
\* that is not empty, was dumped, looked into and then freed.
C17_Witness ==
    /\ Released
    /\ Entries >= 2
    /\ out.called
    /\ found.called
    /\ \E b \in heap.freed : b.what = "String" /\ b.elem > 0
    /\ \E b \in heap.freed : b.what = "str"
    /\ \E b \in heap.freed : b.what = "Data"

====
